---- MODULE Spec2Model ----
(***************************************************************************)
(* Model of the translator application (src/app.py):                       *)
(*   - chunk_text, the line-based splitter (a pure function);              *)
(*   - run_text_job and the two Run handlers of the text and file tabs;    *)
(*   - the voice widget's event handlers (the script of tab_voice).        *)
(* A string is a sequence of one-character strings.                        *)
(***************************************************************************)
EXTENDS Integers, Sequences, FiniteSets, TLC

VARIABLES
    \* ---- chunk_text called on its own
    text,           \* argument text
    max_chars,      \* argument max_chars
    chunk_pc,       \* "call" before the call, "returned" after it
    chunk_result,   \* the list chunk_text returned
    chunk_exc,      \* the exception the call ended with, "none" if it returned
    \* ---- a Run handler of tab_text / tab_file
    job_pc,         \* "idle", "loop" (head of the for loop), "call" (inside gemini_text)
    job_type,       \* "text" or "file": the handler that is running
    job_source,     \* the text handed to run_text_job
    chunks,         \* run_text_job: chunks
    outs,           \* run_text_job: outs
    raw_outs,       \* what gemini_text returned, call by call (observation)
    job_i,          \* run_text_job: the loop index i
    calls,          \* the chunk indices submitted to gemini_text, in order (observation)
    shown,          \* what the handler displayed last: <<kind, string>>
    pre,            \* session state when the running handler started (observation)
    last_source,    \* st.session_state.last_source
    last_output,    \* st.session_state.last_output
    history,        \* st.session_state.history
    \* ---- the voice widget
    supported,      \* window.SpeechRecognition exists
    listening,      \* let listening
    lastHeardMs,    \* let lastHeardMs
    tickId,         \* let tickId (0 is null)
    timers,         \* the active interval timers: id |-> when its callback runs next
    startDisabled,  \* startBtn.disabled
    stopDisabled,   \* stopBtn.disabled
    status,         \* which message statusEl shows
    recState,       \* the recognizer: "inactive", "active", "stopping"
    now             \* Date.now()

chunkVars == <<text, max_chars, chunk_pc, chunk_result, chunk_exc>>
jobVars   == <<job_pc, job_type, job_source, chunks, outs, raw_outs, job_i, calls,
               shown, pre, last_source, last_output, history>>
voiceVars == <<supported, listening, lastHeardMs, tickId, timers,
               startDisabled, stopDisabled, status, recState, now>>
vars      == <<chunkVars, jobVars, voiceVars>>

(***************************************************************************)
(* Strings                                                                 *)
(***************************************************************************)

\* The characters str.strip removes, among the characters used here.
Whitespace == {" ", "\n", "\r"}

Min(S) == CHOOSE m \in S : \A k \in S : m <= k

\* len of every string of a list, summed
RECURSIVE SumLen(_)
SumLen(ss) == IF ss = <<>> THEN 0 ELSE Len(Head(ss)) + SumLen(Tail(ss))

\* "".join(parts)
RECURSIVE Join(_)
Join(parts) == IF parts = <<>> THEN <<>> ELSE Head(parts) \o Join(Tail(parts))

\* The positions at which a line of t ends, as str.splitlines cuts it: a "\n",
\* a "\r" not followed by "\n" ("\r\n" is one boundary), and the last
\* character of t. (The other boundaries of splitlines, "\f", "\v", ...,
\* cut like "\n".)
LineEnds(t) ==
    {i \in 1..Len(t) :
        \/ t[i] = "\n"
        \/ t[i] = "\r" /\ ~(i < Len(t) /\ t[i + 1] = "\n")
        \/ i = Len(t)}

RECURSIVE LinesFrom(_, _, _)
LinesFrom(t, start, ends) ==
    IF ends = {} THEN <<>>
    ELSE LET e == Min(ends)
         IN  <<SubSeq(t, start, e)>> \o LinesFrom(t, e + 1, ends \ {e})

\* text.splitlines(True): the lines of t, each with its terminator
splitlines(t) == LinesFrom(t, 1, LineEnds(t))

\* s.lstrip()
RECURSIVE lstrip(_)
lstrip(s) ==
    IF s # <<>> /\ Head(s) \in Whitespace THEN lstrip(Tail(s)) ELSE s

\* s.rstrip()
RECURSIVE rstrip(_)
rstrip(s) ==
    IF s # <<>> /\ s[Len(s)] \in Whitespace THEN rstrip(SubSeq(s, 1, Len(s) - 1)) ELSE s

\* s.strip()
strip(s) == lstrip(rstrip(s))

(***************************************************************************)
(* chunk_text                                                              *)
(***************************************************************************)

\* A slip in the flush test: >= for >.
RECURSIVE ChunkLoopEager(_, _, _, _, _)
ChunkLoopEager(lines, cur, cur_len, acc, max) ==
    IF lines = <<>>
    THEN IF cur # <<>> THEN Append(acc, Join(cur)) ELSE acc
    ELSE LET line  == Head(lines)
             flush == cur_len + Len(line) >= max /\ cur # <<>>
             acc1  == IF flush THEN Append(acc, Join(cur)) ELSE acc
             cur1  == IF flush THEN <<>> ELSE cur
             len1  == IF flush THEN 0 ELSE cur_len
         IN  ChunkLoopEager(Tail(lines), Append(cur1, line), len1 + Len(line), acc1, max)

\* A slip in the loop: cur_len is never advanced.
RECURSIVE ChunkLoopNoCount(_, _, _, _, _)
ChunkLoopNoCount(lines, cur, cur_len, acc, max) ==
    IF lines = <<>>
    THEN IF cur # <<>> THEN Append(acc, Join(cur)) ELSE acc
    ELSE LET line  == Head(lines)
             flush == cur_len + Len(line) > max /\ cur # <<>>
             acc1  == IF flush THEN Append(acc, Join(cur)) ELSE acc
             cur1  == IF flush THEN <<>> ELSE cur
         IN  ChunkLoopNoCount(Tail(lines), Append(cur1, line), 0, acc1, max)

\* A slip in the flush: the line that did not fit is not appended to the new
\* buffer.
RECURSIVE ChunkLoopDrop(_, _, _, _, _)
ChunkLoopDrop(lines, cur, cur_len, acc, max) ==
    IF lines = <<>>
    THEN IF cur # <<>> THEN Append(acc, Join(cur)) ELSE acc
    ELSE LET line  == Head(lines)
             flush == cur_len + Len(line) > max /\ cur # <<>>
         IN  IF flush
             THEN ChunkLoopDrop(Tail(lines), <<>>, 0, Append(acc, Join(cur)), max)
             ELSE ChunkLoopDrop(Tail(lines), Append(cur, line), cur_len + Len(line), acc, max)

\* The for loop of chunk_text over the remaining lines, then the final flush.
RECURSIVE ChunkLoop(_, _, _, _, _)
ChunkLoop(lines, cur, cur_len, acc, max) ==
    IF lines = <<>>
    THEN IF cur # <<>> THEN Append(acc, Join(cur)) ELSE acc
    ELSE LET line  == Head(lines)
             flush == cur_len + Len(line) > max /\ cur # <<>>
             acc1  == IF flush THEN Append(acc, Join(cur)) ELSE acc
             cur1  == IF flush THEN <<>> ELSE cur
             len1  == IF flush THEN 0 ELSE cur_len
         IN  ChunkLoop(Tail(lines), Append(cur1, line), len1 + Len(line), acc1, max)

\* A slip: the short-circuit of a text that fits is missing.
chunk_text_loop_only(t, max) == ChunkLoop(splitlines(t), <<>>, 0, <<>>, max)

\* chunk_text(text, max_chars)
chunk_text(t, max) ==
    IF Len(t) <= max THEN <<t>>
    ELSE ChunkLoop(splitlines(t), <<>>, 0, <<>>, max)

(***************************************************************************)
(* chunk_text called on every small text with every small budget           *)
(***************************************************************************)

MaxLen       == 6   \* texts of up to MaxLen characters
MaxBudget    == 4   \* budgets up to MaxBudget
MaxNegBudget == 1   \* budgets down to -MaxNegBudget

Chars   == {"a", "\n", "\r"}
Texts   == UNION {[1..n -> Chars] : n \in 0..MaxLen}
Budgets == (0 - MaxNegBudget)..MaxBudget

\* The call of chunk_text: it has no raise statement, so it returns.
CallChunkText ==
    /\ chunk_pc = "call"
    /\ chunk_result' = chunk_text(text, max_chars)
    /\ chunk_exc' = "none"
    /\ chunk_pc' = "returned"
    /\ UNCHANGED <<text, max_chars, jobVars, voiceVars>>

(***************************************************************************)
(* run_text_job and the Run handlers of tab_text and tab_file.             *)
(* A behaviour is one run of the script: session_state at its start, one   *)
(* click on a Run button, the handler to its end. The sidebar settings     *)
(* (lang, mode, tone) and the time stamp of a history entry are left out:  *)
(* no handler below branches on them.                                      *)
(***************************************************************************)

JOB_MAX_CHARS == 8000   \* run_text_job: chunk_text(text, max_chars=8000)
MaxJobLines   == 3      \* long job texts have up to MaxJobLines lines

\* "\n\n".join(parts) for any separator
RECURSIVE JoinSep(_, _)
JoinSep(parts, sep) ==
    IF parts = <<>> THEN <<>>
    ELSE IF Len(parts) = 1 THEN parts[1]
    ELSE parts[1] \o sep \o JoinSep(Tail(parts), sep)

\* str(i) for the part numbers that occur
Digit(i) == <<"0", "1", "2", "3", "4", "5", "6", "7", "8", "9">>[i + 1]

\* f"[파트 {i}/{n}]" ("PA", "TEU" stand for the two letters of 파트)
PartLabel(i, n) == <<"[", "PA", "TEU", " ", Digit(i), "/", Digit(n), "]">>

\* A slip: the loop index counted from 0.
PartOutputFromZero(i, n, out) ==
    IF n > 1 THEN strip(PartLabel(i - 1, n) \o <<"\n">> \o out) ELSE strip(out)

\* run_text_job: what is appended to outs for chunk i of n
PartOutput(i, n, out) ==
    IF n > 1 THEN strip(PartLabel(i, n) \o <<"\n">> \o out) ELSE strip(out)

\* run_text_job: the return value
JobResult(os) == strip(JoinSep(SelectSeq(os, LAMBDA o : o # <<>>), <<"\n", "\n">>))

\* the session state a handler reads and writes
Session == [last_source |-> last_source, last_output |-> last_output, history |-> history]

FreshSession == [last_source |-> <<>>, last_output |-> <<>>, history |-> <<>>]

\* tab_text, the three assignments after run_text_job returned
TextCommit(sess, source, out) ==
    [last_source |-> source,
     last_output |-> out,
     history     |-> Append(sess.history,
                            [type |-> "text", source |-> source, output |-> out])]

\* tab_file, the three assignments after run_text_job returned
FileCommit(sess, file_name, file_text, out) ==
    [last_source |-> <<"[", "F", "I", "L", "E", ":">> \o file_name
                        \o <<"]", "\n", "\n">> \o file_text,
     last_output |-> out,
     history     |-> Append(sess.history,
                            [type |-> "file", file |-> file_name,
                             source |-> file_text, output |-> out])]

\* ---- inputs

\* a line of n characters, terminator included
LineOf(n) == [i \in 1..(n - 1) |-> "a"] \o <<"\n">>

\* two such lines fit one chunk exactly; with a line one longer they do not
JobLines == {LineOf(JOB_MAX_CHARS \div 2), LineOf(JOB_MAX_CHARS \div 2 + 1)}

JobTexts ==
    {<<>>, <<" ">>, <<"a">>}
        \cup {Join(ls) : ls \in UNION {[1..k -> JobLines] : k \in 1..MaxJobLines}}

\* what gemini_text may return
Outputs == {<<>>, <<"\n">>, <<"x">>, <<" ", "y", "\n">>}

FILE_NAME == <<"f", ".", "t", "x", "t">>

\* session_state when the script starts: a fresh session, or the session
\* left by an earlier run of the text tab on "a" that was answered "x"
SessionsAtStart == {FreshSession, TextCommit(FreshSession, <<"a">>, <<"x">>)}

\* ---- the handlers, step by step

StartJob(type, source) ==
    /\ job_type' = type
    /\ job_source' = source
    /\ chunks' = chunk_text(source, JOB_MAX_CHARS)
    /\ outs' = <<>>
    /\ raw_outs' = <<>>
    /\ job_i' = 1
    /\ calls' = <<>>
    /\ pre' = Session
    /\ job_pc' = "loop"
    /\ UNCHANGED <<shown, last_source, last_output, history,
                   chunkVars, voiceVars>>

NoJob ==
    /\ job_pc' = "done"
    /\ UNCHANGED <<job_type, job_source, chunks, outs, raw_outs, job_i, calls,
                   shown, pre, last_source, last_output, history,
                   chunkVars, voiceVars>>

\* tab_text: the Run button is clicked with `source` in the text area
RunTextClick ==
    /\ job_pc = "idle"
    /\ \E source \in JobTexts :
          IF strip(source) # <<>> THEN StartJob("text", source) ELSE NoJob

\* tab_file: the Run button is clicked with a file uploaded whose extracted
\* text is file_text
RunFileClick ==
    /\ job_pc = "idle"
    /\ \E file_text \in JobTexts :
          IF file_text # <<>> THEN StartJob("file", file_text) ELSE NoJob

\* A slip: the chunks are submitted last to first.
SubmitChunkReversed ==
    /\ job_pc = "loop"
    /\ job_i <= Len(chunks)
    /\ calls' = Append(calls, Len(chunks) + 1 - job_i)
    /\ job_pc' = "call"
    /\ UNCHANGED <<job_type, job_source, chunks, outs, raw_outs, job_i,
                   shown, pre, last_source, last_output, history,
                   chunkVars, voiceVars>>

\* run_text_job: the loop takes chunk i, builds its prompt and calls gemini_text
SubmitChunk ==
    /\ job_pc = "loop"
    /\ job_i <= Len(chunks)
    /\ calls' = Append(calls, job_i)
    /\ job_pc' = "call"
    /\ UNCHANGED <<job_type, job_source, chunks, outs, raw_outs, job_i,
                   shown, pre, last_source, last_output, history,
                   chunkVars, voiceVars>>

\* gemini_text returns out: the loop appends the part and goes on
GeminiReturns ==
    /\ job_pc = "call"
    /\ \E out \in Outputs :
          /\ raw_outs' = Append(raw_outs, out)
          /\ outs' = Append(outs, PartOutput(job_i, Len(chunks), out))
    /\ job_i' = job_i + 1
    /\ job_pc' = "loop"
    /\ UNCHANGED <<job_type, job_source, chunks, calls,
                   shown, pre, last_source, last_output, history,
                   chunkVars, voiceVars>>

\* A slip: the except branch keeps what the chunks before gave.
GeminiRaisesKeepsPartial ==
    /\ job_pc = "call"
    /\ shown' = <<"error", <<>>>>
    /\ last_output' = JobResult(outs)
    /\ job_pc' = "done"
    /\ UNCHANGED <<job_type, job_source, chunks, outs, raw_outs, job_i, calls,
                   pre, last_source, history,
                   chunkVars, voiceVars>>

\* gemini_text raises: the exception leaves run_text_job and reaches the
\* handler's except branch, which shows the error
GeminiRaises ==
    /\ job_pc = "call"
    /\ shown' = <<"error", <<>>>>
    /\ job_pc' = "done"
    /\ UNCHANGED <<job_type, job_source, chunks, outs, raw_outs, job_i, calls,
                   pre, last_source, last_output, history,
                   chunkVars, voiceVars>>

\* the loop is over: run_text_job returns, the handler stores and shows the result
FinishJob ==
    /\ job_pc = "loop"
    /\ job_i > Len(chunks)
    /\ LET out  == JobResult(outs)
           sess == IF job_type = "text" THEN TextCommit(Session, job_source, out)
                   ELSE FileCommit(Session, FILE_NAME, job_source, out)
       IN  /\ last_source' = sess.last_source
           /\ last_output' = sess.last_output
           /\ history' = sess.history
           /\ shown' = <<"success", out>>
    /\ job_pc' = "done"
    /\ UNCHANGED <<job_type, job_source, chunks, outs, raw_outs, job_i, calls, pre,
                   chunkVars, voiceVars>>

(***************************************************************************)
(* The voice widget (the script inside components.html of tab_voice).      *)
(* Each action is one event handler run to its end. The handlers of the    *)
(* language selector and of the Copy and Clear buttons, and the text the   *)
(* result handler writes to the text area, touch none of the state below.  *)
(***************************************************************************)

WARN_MS  == 10000   \* the tick callback: elapsed >= 10000
STOP_MS  == 60000   \* the tick callback: elapsed >= 60000
TICK_MS  == 500     \* setInterval(..., 500)
MaxTicks == 123     \* the clock runs to MaxTicks * TICK_MS

NoTimers == [id \in {} |-> 0]

\* setInterval returns an id no active timer has. (The ids of a browser only
\* grow; the script keeps an id in tickId alone and resets tickId with every
\* clearInterval, so which unused id it gets makes no difference.)
FreshTimer ==
    Min({i \in 1..(Cardinality(DOMAIN timers) + 1) : i \notin DOMAIN timers})

\* if(tickId){ clearInterval(tickId); tickId = null; }
clearTick ==
    IF tickId # 0
    THEN /\ timers' = [id \in DOMAIN timers \ {tickId} |-> timers[id]]
         /\ tickId' = 0
    ELSE UNCHANGED <<timers, tickId>>

\* setButtons(), with `l` the value of listening
setButtons(l) ==
    /\ startDisabled' = l
    /\ stopDisabled' = ~l

\* rec.stop(): an active recognizer starts to stop (its end event follows)
AfterRecStop == IF recState = "active" THEN "stopping" ELSE recState

\* rec.start(): an inactive recognizer starts; otherwise start() throws
\* InvalidStateError, which the script catches and ignores
AfterRecStart == IF recState = "inactive" THEN "active" ELSE recState

\* stopListening(auto), called from the callback of timer `running` (0 when
\* called from the Stop button): a timer that is still active after the call
\* is armed again
stopListening(auto, running) ==
    /\ recState' = AfterRecStop
    /\ listening' = FALSE
    /\ setButtons(FALSE)
    /\ status' = IF auto THEN "auto_stopped" ELSE "stopped"
    /\ tickId' = 0
    /\ timers' = [id \in DOMAIN timers \ {tickId} |->
                    IF id = running THEN timers[id] + TICK_MS ELSE timers[id]]
    /\ UNCHANGED <<supported, lastHeardMs, now, chunkVars, jobVars>>

\* startListening()
startListening ==
    /\ listening' = TRUE
    /\ lastHeardMs' = now
    /\ setButtons(TRUE)
    /\ status' = "listening"
    /\ recState' = AfterRecStart
    /\ tickId' = FreshTimer
    /\ timers' = [id \in DOMAIN timers \cup {FreshTimer} |->
                      IF id = FreshTimer THEN now + TICK_MS ELSE timers[id]]
    /\ UNCHANGED <<supported, now, chunkVars, jobVars>>

\* startBtn.onclick; a disabled button gets no click, and the handler is
\* installed only when the browser has SpeechRecognition (then rec is set)
StartClick ==
    /\ supported
    /\ ~startDisabled
    /\ startListening

\* stopBtn.onclick
StopClick ==
    /\ supported
    /\ ~stopDisabled
    /\ stopListening(FALSE, 0)

\* A slip in the callback: > for >= in the test for one minute.
TimerTickLate ==
    /\ \E id \in DOMAIN timers :
          /\ now >= timers[id]
          /\ IF listening /\ now - lastHeardMs > STOP_MS
             THEN stopListening(TRUE, id)
             ELSE /\ status' = IF listening /\ now - lastHeardMs >= WARN_MS
                                           /\ now - lastHeardMs < STOP_MS
                               THEN "warn_silence" ELSE status
                  /\ timers' = [timers EXCEPT ![id] = @ + TICK_MS]
                  /\ UNCHANGED <<supported, listening, lastHeardMs, tickId,
                                 startDisabled, stopDisabled, recState, now,
                                 chunkVars, jobVars>>

\* the callback of an interval timer runs when it is due; the timer is armed
\* again one period later unless the callback cleared it
TimerTick ==
    /\ \E id \in DOMAIN timers :
          /\ now >= timers[id]
          /\ IF listening /\ now - lastHeardMs >= STOP_MS
             THEN stopListening(TRUE, id)
             ELSE /\ status' = IF listening /\ now - lastHeardMs >= WARN_MS
                                           /\ now - lastHeardMs < STOP_MS
                               THEN "warn_silence" ELSE status
                  /\ timers' = [timers EXCEPT ![id] = @ + TICK_MS]
                  /\ UNCHANGED <<supported, listening, lastHeardMs, tickId,
                                 startDisabled, stopDisabled, recState, now,
                                 chunkVars, jobVars>>

\* rec.onresult: the recognizer, started and not yet ended, delivers a result
RecOnResult ==
    /\ supported
    /\ recState \in {"active", "stopping"}
    /\ lastHeardMs' = now
    /\ status' = IF listening THEN "listening" ELSE status
    /\ UNCHANGED <<supported, listening, tickId, timers, startDisabled, stopDisabled,
                   recState, now, chunkVars, jobVars>>

\* the errors rec.onerror tells apart
RecErrors == {"not-allowed", "no-speech", "network"}

\* rec.onerror: the recognizer reports an error (its end event follows)
RecOnError ==
    /\ supported
    /\ recState \in {"active", "stopping"}
    /\ \E error \in RecErrors :
          status' = IF error = "not-allowed" THEN "error_not_allowed"
                    ELSE IF error = "no-speech" THEN "warn_no_speech"
                    ELSE "error_other"
    /\ listening' = FALSE
    /\ setButtons(FALSE)
    /\ clearTick
    /\ recState' = "stopping"
    /\ UNCHANGED <<supported, lastHeardMs, now, chunkVars, jobVars>>

\* A slip: the end handler leaves the timer running.
RecOnEndKeepsTimer ==
    /\ supported
    /\ recState \in {"active", "stopping"}
    /\ recState' = "inactive"
    /\ IF listening
       THEN /\ listening' = FALSE
            /\ setButtons(FALSE)
            /\ status' = "ended_by_browser"
            /\ UNCHANGED <<timers, tickId>>
       ELSE UNCHANGED <<listening, startDisabled, stopDisabled, timers, tickId, status>>
    /\ UNCHANGED <<supported, lastHeardMs, now, chunkVars, jobVars>>

\* rec.onend: the recognizer ends, after stop(), after an error or by itself
RecOnEnd ==
    /\ supported
    /\ recState \in {"active", "stopping"}
    /\ recState' = "inactive"
    /\ IF listening
       THEN /\ listening' = FALSE
            /\ setButtons(FALSE)
            /\ clearTick
            /\ status' = "ended_by_browser"
       ELSE UNCHANGED <<listening, startDisabled, stopDisabled, timers, tickId, status>>
    /\ UNCHANGED <<supported, lastHeardMs, now, chunkVars, jobVars>>

\* Date.now() moves on, by half a timer period at a time (events fall on the
\* timer's instants and between them); a callback that is due runs first
Advance ==
    /\ now < MaxTicks * TICK_MS
    /\ \A id \in DOMAIN timers : now < timers[id]
    /\ now' = now + TICK_MS \div 2
    /\ UNCHANGED <<supported, listening, lastHeardMs, tickId, timers,
                   startDisabled, stopDisabled, status, recState, chunkVars, jobVars>>

InitJobVars ==
    /\ job_pc = "idle" /\ job_type = "none" /\ job_source = <<>>
    /\ chunks = <<>> /\ outs = <<>> /\ raw_outs = <<>> /\ job_i = 0 /\ calls = <<>>
    /\ shown = <<"nothing", <<>>>>
    /\ pre = FreshSession
    /\ last_source = <<>> /\ last_output = <<>> /\ history = <<>>

\* the widget when its script has run, in a browser with SpeechRecognition
\* (setButtons() and setStatus(..., "idle") at the end of the script) or
\* without (both buttons disabled)
InitVoiceVars(sup) ==
    /\ supported = sup
    /\ listening = FALSE /\ lastHeardMs = 0 /\ tickId = 0
    /\ timers = NoTimers
    /\ startDisabled = ~sup
    /\ stopDisabled = TRUE
    /\ status = IF sup THEN "idle" ELSE "unsupported"
    /\ recState = "inactive" /\ now = 0

InitChunk ==
    /\ text \in Texts
    /\ max_chars \in Budgets
    /\ chunk_pc = "call"
    /\ chunk_result = <<>>
    /\ chunk_exc = "none"
    /\ InitJobVars
    /\ InitVoiceVars(TRUE)

NextChunk == CallChunkText

SpecChunk == InitChunk /\ [][NextChunk]_vars

InitChunkVars ==
    /\ text = <<>> /\ max_chars = 0 /\ chunk_pc = "call"
    /\ chunk_result = <<>> /\ chunk_exc = "none"

InitJob ==
    /\ job_pc = "idle" /\ job_type = "none" /\ job_source = <<>>
    /\ chunks = <<>> /\ outs = <<>> /\ raw_outs = <<>> /\ job_i = 0 /\ calls = <<>>
    /\ shown = <<"nothing", <<>>>>
    /\ \E sess \in SessionsAtStart :
          /\ last_source = sess.last_source
          /\ last_output = sess.last_output
          /\ history = sess.history
          /\ pre = sess
    /\ InitChunkVars
    /\ InitVoiceVars(TRUE)

NextJob ==
    \/ RunTextClick
    \/ RunFileClick
    \/ SubmitChunk
    \/ GeminiReturns
    \/ GeminiRaises
    \/ FinishJob

SpecJob == InitJob /\ [][NextJob]_vars

InitVoice ==
    /\ \E sup \in BOOLEAN : InitVoiceVars(sup)
    /\ InitChunkVars
    /\ InitJobVars

NextVoice ==
    \/ StartClick
    \/ StopClick
    \/ TimerTick
    \/ RecOnResult
    \/ RecOnError
    \/ RecOnEnd
    \/ Advance

SpecVoice == InitVoice /\ [][NextVoice]_vars

(***************************************************************************)
(* Claims about chunk_text                                                 *)
(***************************************************************************)

Returned == chunk_pc = "returned"

\* C1: for every text and every positive max_chars, the chunks chunk_text
\* returns, concatenated in the order returned, are exactly the text.
C1_RoundTrip ==
    (Returned /\ max_chars > 0) => Join(chunk_result) = text

\* chunk_text went through its loop and cut a text with a "\r\n" and a lone
\* "\r" into several chunks
C1_Witness ==
    /\ Returned /\ max_chars > 0
    /\ Len(chunk_result) >= 3
    /\ \E i \in 1..(Len(text) - 1) : text[i] = "\r" /\ text[i + 1] = "\n"
    /\ \E i \in 1..(Len(text) - 1) : text[i] = "\r" /\ text[i + 1] = "a"

\* C2: for every text and positive max_chars, a returned chunk is longer than
\* max_chars only if it is exactly one line (so a chunk of several lines fits),
\* and every line longer than max_chars is a chunk of its own, whole.
C2_LengthBound ==
    (Returned /\ max_chars > 0) =>
        /\ \A i \in 1..Len(chunk_result) :
              \/ Len(chunk_result[i]) <= max_chars
              \/ Len(splitlines(chunk_result[i])) = 1
        /\ \A i \in 1..Len(chunk_result) :
              \A j \in 1..Len(splitlines(chunk_result[i])) :
                  Len(splitlines(chunk_result[i])[j]) > max_chars
                      => Len(splitlines(chunk_result[i])) = 1
        /\ LET lines == splitlines(text)
           IN  \A j \in 1..Len(lines) :
                  Len(lines[j]) > max_chars
                      => \E i \in 1..Len(chunk_result) : chunk_result[i] = lines[j]

\* an oversized line between two chunks, one of them of several lines
C2_Witness ==
    /\ Returned /\ max_chars > 0
    /\ \E i \in 1..Len(chunk_result) : Len(chunk_result[i]) > max_chars
    /\ \E i \in 1..Len(chunk_result) :
          Len(splitlines(chunk_result[i])) >= 2 /\ Len(chunk_result[i]) = max_chars

\* C3 as stated: a call with max_chars <= 0 ends with InvalidArgument and
\* returns no list.
C3_Rejected ==
    (Returned /\ max_chars <= 0) =>
        (chunk_exc = "InvalidArgument" /\ chunk_result = <<>>)

\* C3 as amended: a call with max_chars <= 0 raises nothing and returns a
\* list: the empty text alone for the empty text and max_chars = 0, and
\* otherwise every line of the text as a chunk of its own (no chunk at all for
\* the empty text and a negative max_chars).
C3_NonPositiveBudget ==
    (Returned /\ max_chars <= 0) =>
        /\ chunk_exc = "none"
        /\ chunk_result =
              IF text = <<>> /\ max_chars = 0 THEN <<text>> ELSE splitlines(text)

\* both special cases and the general one
C3_Witness ==
    /\ Returned /\ max_chars <= 0
    /\ \/ text = <<>> /\ max_chars = 0 /\ chunk_result = << <<>> >>
       \/ text = <<>> /\ max_chars < 0 /\ chunk_result = <<>>
       \/ Len(chunk_result) >= 3

\* Whether a group of whole lines may be a chunk: it fits, or it is one line.
GroupOk(group, max) == SumLen(group) <= max \/ Len(group) = 1

\* The least number of groups in a partition of lines into contiguous groups
\* that may be chunks (all partitions are tried).
RECURSIVE MinGroups(_, _)
MinGroups(lines, max) ==
    IF lines = <<>> THEN 0
    ELSE 1 + Min({MinGroups(SubSeq(lines, k + 1, Len(lines)), max) :
                    k \in {k \in 1..Len(lines) : GroupOk(SubSeq(lines, 1, k), max)}})

\* C6: for a text longer than a positive max_chars, chunk_text returns as few
\* chunks as any partition of the lines into contiguous groups that fit or are
\* a single line; and a chunk is closed only when the next line does not fit.
C6_GreedyMinimal ==
    (Returned /\ max_chars > 0 /\ Len(text) > max_chars) =>
        /\ Len(chunk_result) = MinGroups(splitlines(text), max_chars)
        /\ \A i \in 1..(Len(chunk_result) - 1) :
              Len(chunk_result[i]) + Len(splitlines(chunk_result[i + 1])[1]) > max_chars

\* a text of at least five lines packed into fewer chunks than lines
C6_Witness ==
    /\ Returned /\ max_chars > 0 /\ Len(text) > max_chars
    /\ Len(splitlines(text)) >= 5
    /\ Len(chunk_result) >= 2
    /\ Len(chunk_result) < Len(splitlines(text))

(***************************************************************************)
(* Claims about run_text_job and the Run handlers                          *)
(***************************************************************************)

\* the handler ended in its try branch
Succeeded == job_pc = "done" /\ shown[1] = "success"

\* the handler ended with a call of gemini_text that did not return
Raised == job_pc = "done" /\ Len(calls) > Len(raw_outs)

\* the elements of ss whose flag in keep is set, in order
RECURSIVE Kept(_, _)
Kept(ss, keep) ==
    IF ss = <<>> THEN <<>>
    ELSE (IF Head(keep) THEN <<Head(ss)>> ELSE <<>>) \o Kept(Tail(ss), Tail(keep))

BlankLine == <<"\n", "\n">>

\* C4 as stated: with n > 1 chunks, the result is exactly the labelled sections
\* of the chunks whose output was not empty (or whitespace only); a chunk
\* whose output was empty leaves no section and no label.
C4_EmptyDropped ==
    (Succeeded /\ Len(chunks) > 1) =>
        LET n == Len(chunks)
            nonEmpty == [i \in 1..n |-> strip(raw_outs[i]) # <<>>]
            sections == [i \in 1..n |-> PartLabel(i, n) \o <<"\n">> \o strip(raw_outs[i])]
        IN  last_output = JoinSep(Kept(sections, nonEmpty), BlankLine)

\* C5: when gemini_text raises for a chunk, the handler shows an error and no
\* result, appends nothing to history and leaves last_source and last_output
\* as they were when it started.
C5_FailureLeavesSession ==
    Raised =>
        /\ shown = <<"error", <<>>>>
        /\ last_source = pre.last_source
        /\ last_output = pre.last_output
        /\ history = pre.history

\* a file job on a session that has a history fails at its third chunk, after
\* two chunks gave output
C5_Witness ==
    /\ Raised
    /\ job_type = "file"
    /\ Len(calls) = 3
    /\ raw_outs = << <<"x">>, <<" ", "y", "\n">> >>
    /\ pre.history # <<>>
    /\ last_output = <<"x">>

\* C7 as stated: with n > 1 chunks and no empty output, the result is the n
\* sections in order, section i the marker of part i of n followed by the
\* output of chunk i, with a blank line between sections.
C7_MarkerThenOutput ==
    (Succeeded /\ Len(chunks) > 1 /\ \A i \in 1..Len(chunks) : raw_outs[i] # <<>>) =>
        LET n == Len(chunks)
            sections == [i \in 1..n |-> PartLabel(i, n) \o <<"\n">> \o raw_outs[i]]
        IN  last_output = JoinSep(sections, BlankLine)

\* C7 as amended: with n > 1 chunks and no empty output, the result is the n
\* sections in order with a blank line between sections, section i being the
\* marker of part i of n, a newline and the output of chunk i without its
\* trailing whitespace, or the marker alone when that output is whitespace.
C7_MarkerThenTrimmedOutput ==
    (Succeeded /\ Len(chunks) > 1 /\ \A i \in 1..Len(chunks) : raw_outs[i] # <<>>) =>
        LET n == Len(chunks)
            sections == [i \in 1..n |->
                            IF strip(raw_outs[i]) = <<>> THEN PartLabel(i, n)
                            ELSE PartLabel(i, n) \o <<"\n">> \o rstrip(raw_outs[i])]
        IN  /\ last_output = JoinSep(sections, BlankLine)
            /\ shown[2] = last_output

\* three chunks, answered by a clean output, one with whitespace around it and
\* one of whitespace only
C7_Witness ==
    /\ Succeeded
    /\ Len(chunks) = 3
    /\ raw_outs = << <<"x">>, <<" ", "y", "\n">>, <<"\n">> >>

\* C8: gemini_text is called for the chunks 1, 2, ... in this order, once
\* each; a call starts only when every earlier call has returned; after a
\* call that raised no chunk is submitted; a job that succeeds has called it
\* for every chunk.
C8_Sequential ==
    /\ calls = [k \in 1..Len(calls) |-> k]
    /\ Len(calls) <= Len(chunks)
    /\ Len(calls) - Len(raw_outs) \in {0, 1}
    /\ job_pc = "loop" => (Len(raw_outs) = Len(calls) /\ job_i = Len(calls) + 1)
    /\ job_pc = "call" => (Len(raw_outs) = Len(calls) - 1 /\ job_i = Len(calls))
    /\ Succeeded => (Len(calls) = Len(chunks) /\ Len(raw_outs) = Len(chunks))

\* a job of three chunks ran to its end
C8_Witness ==
    /\ Succeeded
    /\ calls = <<1, 2, 3>>
    /\ Len(chunks) = 3

(***************************************************************************)
(* Claims about the voice widget                                           *)
(***************************************************************************)

\* C9: the widget is never listening with a silence of 60 seconds and a whole
\* timer period behind it: the tick that finds it listening with 60 seconds
\* or more gone since the start or the last result stops it (listening false,
\* the timer cleared, Start enabled, Stop disabled, the automatic-stop message
\* shown); a tick before that stops nothing; and a result sets the silence
\* clock back to the present.
C9_AutoStop ==
    /\ [](listening => now - lastHeardMs < STOP_MS + TICK_MS)
    /\ [][/\ (TimerTick /\ listening) =>
                IF now - lastHeardMs >= STOP_MS
                THEN /\ ~listening'
                     /\ DOMAIN timers' = {} /\ tickId' = 0
                     /\ ~startDisabled' /\ stopDisabled'
                     /\ status' = "auto_stopped"
                ELSE /\ listening'
                     /\ DOMAIN timers' = DOMAIN timers /\ tickId' = tickId
                     /\ status' # "auto_stopped"
          /\ RecOnResult => lastHeardMs' = now']_vars

\* the widget stopped by itself a minute after a result that came in later
\* than the start
C9_Witness ==
    /\ status = "auto_stopped"
    /\ ~listening
    /\ DOMAIN timers = {}
    /\ lastHeardMs > 0
    /\ now - lastHeardMs >= STOP_MS

\* C10: in a page whose handlers are installed, whatever handlers have run,
\* the tick timer is active exactly when listening is true, there is at most
\* one timer, and Start is disabled exactly when listening is true while Stop
\* is disabled exactly when it is false.
C10_Consistent ==
    supported =>
        /\ (DOMAIN timers # {}) <=> listening
        /\ Cardinality(DOMAIN timers) <= 1
        /\ DOMAIN timers = IF tickId = 0 THEN {} ELSE {tickId}
        /\ startDisabled <=> listening
        /\ stopDisabled <=> ~listening

\* Start was clicked while the recognizer had not yet ended after a Stop or an
\* error
C10_Witness ==
    /\ supported
    /\ listening
    /\ recState = "stopping"
    /\ DOMAIN timers # {}

====
